---- MODULE Spec2Model ----
(***************************************************************************)
(* A model of plugins/modules/clustering/consul/consul_token.py: the       *)
(* reconciliation of one Consul ACL token against the agent's HTTP API.    *)
(*                                                                         *)
(* Python values are modelled as tagged TLA+ records so that Python's ==   *)
(* and != between values of different types (None against a list, None     *)
(* against a str) can be evaluated: None is [null |-> TRUE], the str "x"   *)
(* is S("x"), the list [a, b] is L(<<a, b>>), a dict is a function from    *)
(* its keys (bare TLA+ strings) to its values, bool and int are TLA+       *)
(* booleans and integers.                                                  *)
(* A str holding a version is a sequence of one-character strings.         *)
(***************************************************************************)
EXTENDS Integers, Sequences, FiniteSets, TLC

VARIABLES
    consulVersion,      \* remote: the Version string /agent/self reports
    dir,                \* remote: accessor id -> full token document
    index,              \* remote: accessor id -> partial document of /acl/tokens
    listExtra,          \* remote: listing entries that carry no accessor identity
    agentStatuses,      \* remote: the status codes the agent answers with
    extWrites,          \* remote: writes made by a client other than the module
    params,             \* per reconciler: module.params of the invocation
    pc,                 \* per reconciler: position inside main()
    runs,               \* per reconciler: invocations started so far
    configuration,      \* per reconciler: the Configuration object (with .version)
    tokens,             \* per reconciler: result of get_tokens
    index_token_object, \* per reconciler: set_token's index entry
    rest_token_object,  \* per reconciler: set_token's full fetch
    token,              \* per reconciler: set_token's merged view
    response,           \* per reconciler: body of the last response read
    output,             \* per reconciler: the Output returned, None before
    failure,            \* per reconciler: how the invocation failed, "none" if not
    calls,              \* per reconciler: HTTP requests issued by this invocation
    last_status,        \* per reconciler: status of the last response, 0 if none
    before_put,         \* per reconciler: the remote token just before its PUT
    prev,               \* per reconciler: outcome of the previous invocation
    compared            \* the last pair of versions compared, with the results

remoteVars == <<consulVersion, dir, index, listExtra, agentStatuses, extWrites>>
localVars == <<configuration, tokens, index_token_object, rest_token_object,
               token, response, output, failure, calls>>
vars == <<consulVersion, dir, index, listExtra, agentStatuses, extWrites,
          params, pc, runs, configuration, tokens, index_token_object,
          rest_token_object, token, response, output, failure, calls,
          last_status, before_put, prev, compared>>

----------------------------------------------------------------------------
(* Bounds *)

MaxRuns == 2

----------------------------------------------------------------------------
(* Python values *)

None == [null |-> TRUE]
S(s) == [str |-> s]
L(q) == [list |-> q]

isinstance_dict(x) ==
    /\ "null" \notin DOMAIN x
    /\ "str" \notin DOMAIN x
    /\ "list" \notin DOMAIN x

dict_get(d, k, default) == IF k \in DOMAIN d THEN d[k] ELSE default

\* dict.update: d2's items override d1's, d1's other items are kept
dict_update(d1, d2) ==
    [k \in DOMAIN d1 \cup DOMAIN d2 |-> IF k \in DOMAIN d2 THEN d2[k] ELSE d1[k]]

dict_without(d, ks) == [k \in DOMAIN d \ ks |-> d[k]]

Reconcilers == {"r1", "r2"}

----------------------------------------------------------------------------
(* ConsulVersion *)

\* str.split(sep) on a sequence of characters
RECURSIVE split(_, _)
split(s, sep) ==
    IF \A i \in DOMAIN s : s[i] # sep
    THEN <<s>>
    ELSE LET i == CHOOSE j \in DOMAIN s :
                      s[j] = sep /\ \A k \in 1..(j - 1) : s[k] # sep
         IN  <<SubSeq(s, 1, i - 1)>> \o split(SubSeq(s, i + 1, Len(s)), sep)

DigitValue(c) ==
    CASE c = "0" -> 0 [] c = "1" -> 1 [] c = "2" -> 2 [] c = "3" -> 3
      [] c = "4" -> 4 [] c = "5" -> 5 [] c = "6" -> 6 [] c = "7" -> 7
      [] c = "8" -> 8 [] c = "9" -> 9

\* int() of a string of decimal digits
RECURSIVE int(_)
int(s) ==
    IF s = <<>> THEN 0
    ELSE 10 * int(SubSeq(s, 1, Len(s) - 1)) + DigitValue(s[Len(s)])

\* ConsulVersion.__init__ raises IndexError on fewer than three components
ConsulVersion_raises(version_string) == Len(split(version_string, ".")) < 3

ConsulVersion(version_string) ==
    LET parts == split(version_string, ".")
    IN  [major |-> parts[1], minor |-> parts[2], patch |-> parts[3]]

\* __ge__ comparing major, then minor, then patch as numbers
ConsulVersion_ge_release(self, other) ==
    \/ int(self.major) > int(other.major)
    \/ /\ int(self.major) = int(other.major)
       /\ \/ int(self.minor) > int(other.minor)
          \/ /\ int(self.minor) = int(other.minor)
             /\ int(self.patch) >= int(other.patch)

ConsulVersion_ge(self, other) ==
    int(self.major \o self.minor \o self.patch)
        >= int(other.major \o other.minor \o other.patch)

ConsulVersion_le(self, other) ==
    int(self.major \o self.minor \o self.patch)
        <= int(other.major \o other.minor \o other.patch)

V_1_5_0 == <<"1", ".", "5", ".", "0">>
V_1_8_0 == <<"1", ".", "8", ".", "0">>

----------------------------------------------------------------------------
(* ServiceIdentity, NodeIdentity, RoleLink, PolicyLink *)

\* the condition under which ServiceIdentity.__init__ raises ValueError
ServiceIdentity_raises(input) ==
    ~isinstance_dict(input) \/ "name" \notin DOMAIN input

ServiceIdentity(input) ==
    [name |-> input["name"],
     datacenters |-> IF "datacenters" \in DOMAIN input
                     THEN input["datacenters"] ELSE None]

ServiceIdentity_to_dict(self) ==
    [ServiceName |-> self.name, Datacenters |-> self.datacenters]

\* the condition under which NodeIdentity.__init__ raises ValueError
NodeIdentity_raises(input) ==
    ~isinstance_dict(input) \/ "name" \notin DOMAIN input

NodeIdentity(input) ==
    [name |-> input["name"],
     datacenter |-> IF "datacenter" \in DOMAIN input
                    THEN input["datacenter"] ELSE None]

NodeIdentity_to_dict(self) ==
    [NodeName |-> self.name, Datacenter |-> self.datacenter]

RoleLink(dict) ==
    [id |-> dict_get(dict, "id", None), name |-> dict_get(dict, "name", None)]

RoleLink_to_dict(self) == [ID |-> self.id, Name |-> self.name]

\* self.name read from the key "id"
PolicyLink_name_from_id(dict) ==
    [id |-> dict_get(dict, "id", None), name |-> dict_get(dict, "id", None)]

PolicyLink(dict) ==
    [id |-> dict_get(dict, "id", None), name |-> dict_get(dict, "name", None)]

PolicyLink_to_dict(self) == [ID |-> self.id, Name |-> self.name]

----------------------------------------------------------------------------
(* Configuration *)

PRESENT_STATE_VALUE == "present"
ABSENT_STATE_VALUE == "absent"

REMOVE_OPERATION == "remove"
UPDATE_OPERATION == "update"
CREATE_OPERATION == "create"

\* Configuration.__init__ lets the ValueError of an identity escape
Configuration_raises(p) ==
    \/ \E i \in DOMAIN p.service_identities.list :
           ServiceIdentity_raises(p.service_identities.list[i])
    \/ \E i \in DOMAIN p.node_identities.list :
           NodeIdentity_raises(p.node_identities.list[i])

\* the attributes the reconciliation reads; version is set later by main()
Configuration(p) ==
    [id |-> p.id,
     description |-> p.description,
     token |-> p.token,
     roles |-> L([i \in DOMAIN p.roles.list |-> RoleLink(p.roles.list[i])]),
     policies |-> L([i \in DOMAIN p.policies.list |->
                          PolicyLink(p.policies.list[i])]),
     service_identities |-> L([i \in DOMAIN p.service_identities.list |->
                          ServiceIdentity(p.service_identities.list[i])]),
     node_identities |-> L([i \in DOMAIN p.node_identities.list |->
                          NodeIdentity(p.node_identities.list[i])]),
     local |-> p.local,
     state |-> p.state,
     version |-> None]

Output(changed, operation, tok) ==
    [changed |-> changed, operation |-> operation, token |-> tok]

\* handle_consul_response_error with 600 counted as an error status
handle_consul_response_error_raises_to_600(status_code) ==
    400 <= status_code /\ status_code <= 600

\* handle_consul_response_error raises RequestError for these statuses
handle_consul_response_error_raises(status_code) ==
    400 <= status_code /\ status_code < 600

----------------------------------------------------------------------------
(* get_tokens, set_token's merge, the request bodies, change detection *)

\* token['AccessorID'] raises KeyError on a listing entry without the key
get_tokens_raises(listing) ==
    \E i \in DOMAIN listing.list : "AccessorID" \notin DOMAIN listing.list[i]

\* dict((token['AccessorID'], token) for token in tokens
\*      if token['AccessorID'] is not None): a later entry replaces an
\* earlier one with the same key
get_tokens(listing) ==
    LET q == listing.list
        kept == {i \in DOMAIN q : q[i]["AccessorID"] # None}
        last(k) == CHOOSE i \in kept :
                       /\ q[i]["AccessorID"] = k
                       /\ \A j \in kept : q[j]["AccessorID"] = k => j <= i
    IN  [k \in {q[i]["AccessorID"].str : i \in kept} |->
             q[last(S(k))]]

\* remove_token: changed is True on the branch configuration.id in tokens
\* and False on the other
remove_token_changed_true(c, toks) == TRUE

remove_token_changed_false(c, toks) == FALSE

remove_token_changed(c, toks) == c.id.str \in DOMAIN toks

\* remove_token: token_id = tokens[configuration.id]['AccessorID']
remove_token_id_other(c, toks) ==
    toks[CHOOSE k \in DOMAIN toks : k # c.id.str]["AccessorID"]

remove_token_id(c, toks) == toks[c.id.str]["AccessorID"]

\* token = index_token_object.copy(); token.update(rest_token_object)
merge_token_index_wins(index_entry, rest) == dict_update(rest, index_entry)

merge_token(index_entry, rest) == dict_update(index_entry, rest)

dict_set(d, k, v) == [x \in DOMAIN d \cup {k} |-> IF x = k THEN v ELSE d[x]]

policies_to_dict(c) ==
    L([i \in DOMAIN c.policies.list |-> PolicyLink_to_dict(c.policies.list[i])])

roles_to_dict(c) ==
    L([i \in DOMAIN c.roles.list |-> RoleLink_to_dict(c.roles.list[i])])

service_identities_to_dict(c) ==
    L([i \in DOMAIN c.service_identities.list |->
           ServiceIdentity_to_dict(c.service_identities.list[i])])

node_identities_to_dict(c) ==
    L([i \in DOMAIN c.node_identities.list |->
           NodeIdentity_to_dict(c.node_identities.list[i])])

\* the gates written with <= where the code has >=
update_token_data_le(c) ==
    LET data == [Description |-> c.description,
                 Policies |-> policies_to_dict(c),
                 Roles |-> roles_to_dict(c),
                 Local |-> c.local]
        d1 == IF ConsulVersion_le(c.version, ConsulVersion(V_1_5_0))
              THEN dict_set(data, "ServiceIdentities",
                            service_identities_to_dict(c))
              ELSE data
    IN  IF ConsulVersion_le(c.version, ConsulVersion(V_1_8_0))
        THEN dict_set(d1, "NodeIdentities", node_identities_to_dict(c))
        ELSE d1

\* the update body without the roles
update_token_data_no_roles(c) ==
    LET data == [Description |-> c.description,
                 Policies |-> policies_to_dict(c),
                 Local |-> c.local]
        d1 == IF ConsulVersion_ge(c.version, ConsulVersion(V_1_5_0))
              THEN dict_set(data, "ServiceIdentities",
                            service_identities_to_dict(c))
              ELSE data
    IN  IF ConsulVersion_ge(c.version, ConsulVersion(V_1_8_0))
        THEN dict_set(d1, "NodeIdentities", node_identities_to_dict(c))
        ELSE d1

\* the update body carrying the configured secret, as the creation body does
update_token_data_with_secret(c) ==
    LET data == [Description |-> c.description,
                 SecretID |-> c.token,
                 Policies |-> policies_to_dict(c),
                 Roles |-> roles_to_dict(c),
                 Local |-> c.local]
        d1 == IF ConsulVersion_ge(c.version, ConsulVersion(V_1_5_0))
              THEN dict_set(data, "ServiceIdentities",
                            service_identities_to_dict(c))
              ELSE data
    IN  IF ConsulVersion_ge(c.version, ConsulVersion(V_1_8_0))
        THEN dict_set(d1, "NodeIdentities", node_identities_to_dict(c))
        ELSE d1

update_token_data(c) ==
    LET data == [Description |-> c.description,
                 Policies |-> policies_to_dict(c),
                 Roles |-> roles_to_dict(c),
                 Local |-> c.local]
        d1 == IF ConsulVersion_ge(c.version, ConsulVersion(V_1_5_0))
              THEN dict_set(data, "ServiceIdentities",
                            service_identities_to_dict(c))
              ELSE data
    IN  IF ConsulVersion_ge(c.version, ConsulVersion(V_1_8_0))
        THEN dict_set(d1, "NodeIdentities", node_identities_to_dict(c))
        ELSE d1

create_token_data(c) ==
    LET data == [AccessorID |-> c.id,
                 Description |-> c.description,
                 SecretID |-> c.token,
                 Policies |-> policies_to_dict(c),
                 Roles |-> roles_to_dict(c),
                 Local |-> c.local]
        d1 == IF ConsulVersion_ge(c.version, ConsulVersion(V_1_5_0))
              THEN dict_set(data, "ServiceIdentities",
                            service_identities_to_dict(c))
              ELSE data
    IN  IF ConsulVersion_ge(c.version, ConsulVersion(V_1_8_0))
        THEN dict_set(d1, "NodeIdentities", node_identities_to_dict(c))
        ELSE d1

\* token['Description'] and token['Local'] raise KeyError on a missing key;
\* `or` evaluates Local only when the Descriptions are equal
update_token_changed_raises(tok, resulting_token) ==
    \/ "Description" \notin DOMAIN tok
    \/ "Description" \notin DOMAIN resulting_token
    \/ /\ tok["Description"] = resulting_token["Description"]
       /\ \/ "Local" \notin DOMAIN tok
          \/ "Local" \notin DOMAIN resulting_token

\* changed = token != resulting_token: every field takes part
update_token_changed_whole(tok, resulting_token) == tok # resulting_token

\* the comparison with a missing key and a null value told apart
update_token_changed_strict(tok, resulting_token) ==
    \/ tok["Description"] # resulting_token["Description"]
    \/ tok["Local"] # resulting_token["Local"]
    \/ \E k \in {"Policies", "Roles", "ServiceIdentities", "NodeIdentities"} :
           \/ (k \in DOMAIN tok) # (k \in DOMAIN resulting_token)
           \/ /\ k \in DOMAIN tok
              /\ k \in DOMAIN resulting_token
              /\ tok[k] # resulting_token[k]

\* changed reported for every update
update_token_changed_always(tok, resulting_token) == TRUE

update_token_changed(tok, resulting_token) ==
    \/ tok["Description"] # resulting_token["Description"]
    \/ tok["Local"] # resulting_token["Local"]
    \/ dict_get(tok, "Policies", None)
           # dict_get(resulting_token, "Policies", None)
    \/ dict_get(tok, "Roles", None) # dict_get(resulting_token, "Roles", None)
    \/ dict_get(tok, "ServiceIdentities", None)
           # dict_get(resulting_token, "ServiceIdentities", None)
    \/ dict_get(tok, "NodeIdentities", None)
           # dict_get(resulting_token, "NodeIdentities", None)

----------------------------------------------------------------------------
(* The agent's HTTP API, as the module uses it: a store of token documents *)

Statuses == {200, 399, 400, 599, 600}

\* a success and an error
UsualStatuses == {200, 400}

\* what a request can come back with: requests raises ConnectionError, or
\* there is a response with a status code
Results == {[error |-> "ConnectionError"]} \cup
           {[status_code |-> st] : st \in agentStatuses}

\* response.status_code, 0 when there is no response
status_of(result) ==
    IF "error" \in DOMAIN result THEN 0 ELSE result.status_code

\* how the call ends for the caller: "connect", "request" or "none"
call_error(result) ==
    IF "error" \in DOMAIN result THEN "connect"
    ELSE IF handle_consul_response_error_raises(result.status_code)
         THEN "request"
         ELSE "none"

Request(method, path, arg, body) ==
    [method |-> method, path |-> path, arg |-> arg, body |-> body]

RECURSIVE SeqOfSet(_)
SeqOfSet(set) ==
    IF set = {} THEN <<>>
    ELSE LET x == CHOOSE y \in set : TRUE
         IN  <<x>> \o SeqOfSet(set \ {x})

\* GET /acl/tokens
remote_listing ==
    L(listExtra \o SeqOfSet({index[k] : k \in DOMAIN index}))

\* the listing entry of a stored document: the document without its secret
remote_stub(doc) == dict_without(doc, {"SecretID"})

GeneratedSecret == S("generated")

\* PUT /acl/token: the document stored for a creation request
remote_created(body) ==
    dict_update(body,
        [SecretID |-> IF body["SecretID"] = None
                      THEN GeneratedSecret ELSE body["SecretID"],
         ModifyIndex |-> 1])

\* PUT /acl/token/<id>: the stored document takes what is sent, keeps the
\* identity it is addressed by, and keeps its secret unless one is sent
remote_updated(doc, body) ==
    dict_update(dict_without(body, {"AccessorID"}),
        [AccessorID |-> doc["AccessorID"],
         SecretID |-> dict_get(body, "SecretID", doc["SecretID"]),
         ModifyIndex |-> doc["ModifyIndex"] + 1])

remote_put(fn, k, v) == [x \in DOMAIN fn \cup {k} |-> IF x = k THEN v ELSE fn[x]]

remote_del(fn, k) == [x \in DOMAIN fn \ {k} |-> fn[x]]

----------------------------------------------------------------------------
(* Inputs *)

ManagedId == S("ID-1")
OtherId == S("ID-2")

VersionStrings ==
    {<<"1", ".", "4", ".", "9">>,
     <<"1", ".", "5", ".", "0">>,
     <<"1", ".", "8", ".", "0">>,
     <<"1", ".", "4", ".", "1", "0">>,
     <<"1", ".", "7", ".", "1", "0">>,
     <<"1", ".", "8">>}

PolicyInputs ==
    {L(<<>>), L(<<[name |-> S("p1")]>>), L(<< <<>> >>)}

RoleInputs ==
    {L(<<>>), L(<<[id |-> S("r1")]>>)}

ServiceIdentityInputs ==
    {L(<<>>),
     L(<<[name |-> S("web"), datacenters |-> L(<<S("dc1")>>)]>>),
     L(<<[datacenters |-> L(<<S("dc1")>>)]>>),
     L(<<S("web")>>)}

NodeIdentityInputs ==
    {L(<<>>),
     L(<<[name |-> S("node-1")]>>),
     L(<<[datacenter |-> S("dc2")]>>)}

\* module.params, as _ARGUMENT_SPEC delivers them: for state=present every
\* combination of the attributes, for state=absent the attributes at their
\* defaults apart from the identities
ParamsSet ==
    [id : {ManagedId},
     state : {PRESENT_STATE_VALUE},
     description : {S(""), S("d1")},
     local : BOOLEAN,
     token : {None, S("s1")},
     policies : PolicyInputs,
     roles : RoleInputs,
     service_identities : ServiceIdentityInputs,
     node_identities : NodeIdentityInputs]
    \cup
    [id : {ManagedId},
     state : {ABSENT_STATE_VALUE},
     description : {S("")},
     local : {FALSE},
     token : {None},
     policies : {L(<<>>)},
     roles : {L(<<>>)},
     service_identities : ServiceIdentityInputs,
     node_identities : NodeIdentityInputs]

OtherToken ==
    [AccessorID |-> OtherId, SecretID |-> S("s2"), Description |-> S("other"),
     Local |-> FALSE, ModifyIndex |-> 1]

\* a token as the agent returns it when it has no links: the list keys are
\* left out
BareToken ==
    [AccessorID |-> ManagedId, SecretID |-> S("s0"), Description |-> S(""),
     Local |-> FALSE, ModifyIndex |-> 1]

LinkedToken ==
    [AccessorID |-> ManagedId, SecretID |-> S("s0"), Description |-> S("d1"),
     Local |-> FALSE,
     Policies |-> L(<<[ID |-> None, Name |-> S("p1")]>>),
     ModifyIndex |-> 1]

\* a token that has its link lists, empty
SettledToken ==
    [AccessorID |-> ManagedId, SecretID |-> S("s0"), Description |-> S(""),
     Local |-> FALSE, Policies |-> L(<<>>), Roles |-> L(<<>>),
     ModifyIndex |-> 1]

\* its listing entry, with the identity lists present and null
SettledEntry ==
    dict_update(remote_stub(SettledToken),
                [ServiceIdentities |-> None, NodeIdentities |-> None])

\* a listing entry that differs from the full document: no Description, an
\* older Policies value, and a Roles value the full document does not carry
PartialEntry ==
    [AccessorID |-> ManagedId, Local |-> FALSE, Policies |-> L(<<>>),
     Roles |-> L(<<[ID |-> S("r1"), Name |-> S("role-1")]>>),
     ModifyIndex |-> 1]

\* listing entries without an accessor identity: one whose AccessorID is
\* null, one that has no AccessorID key
NullIdEntry == [AccessorID |-> None, Description |-> S("anonymous")]

NoIdEntry == [Description |-> S("anonymous")]

RemoteWithout ==
    [dir |-> (OtherId :> OtherToken),
     index |-> (OtherId :> remote_stub(OtherToken))]

RemoteWithBare ==
    [dir |-> (OtherId :> OtherToken) @@ (ManagedId :> BareToken),
     index |-> (OtherId :> remote_stub(OtherToken))
                   @@ (ManagedId :> remote_stub(BareToken))]

RemoteWithSettled ==
    [dir |-> (OtherId :> OtherToken) @@ (ManagedId :> SettledToken),
     index |-> (OtherId :> remote_stub(OtherToken))
                   @@ (ManagedId :> SettledEntry)]

RemoteWithPartial ==
    [dir |-> (OtherId :> OtherToken) @@ (ManagedId :> LinkedToken),
     index |-> (OtherId :> remote_stub(OtherToken))
                   @@ (ManagedId :> PartialEntry)]

with_extra(rem, extra) ==
    [dir |-> rem.dir, index |-> rem.index, listExtra |-> extra]

InitialRemotes ==
    {with_extra(RemoteWithout, <<>>),
     with_extra(RemoteWithBare, <<>>),
     with_extra(RemoteWithPartial, <<>>),
     with_extra(RemoteWithSettled, <<>>),
     with_extra(RemoteWithout, <<NullIdEntry>>),
     with_extra(RemoteWithPartial, <<NullIdEntry>>),
     with_extra(RemoteWithBare, <<NoIdEntry>>)}

----------------------------------------------------------------------------
(* State *)

NoPrev == [pc |-> "idle", output |-> None, failure |-> "none"]

InitLocals ==
    /\ pc = [r \in Reconcilers |-> "idle"]
    /\ runs = [r \in Reconcilers |-> 0]
    /\ configuration = [r \in Reconcilers |-> None]
    /\ tokens = [r \in Reconcilers |-> None]
    /\ index_token_object = [r \in Reconcilers |-> None]
    /\ rest_token_object = [r \in Reconcilers |-> None]
    /\ token = [r \in Reconcilers |-> None]
    /\ response = [r \in Reconcilers |-> None]
    /\ output = [r \in Reconcilers |-> None]
    /\ failure = [r \in Reconcilers |-> "none"]
    /\ calls = [r \in Reconcilers |-> <<>>]
    /\ last_status = [r \in Reconcilers |-> 0]
    /\ before_put = [r \in Reconcilers |-> None]
    /\ prev = [r \in Reconcilers |-> NoPrev]
    /\ compared = None
    /\ extWrites = 0

DefaultParams ==
    [id |-> ManagedId, state |-> PRESENT_STATE_VALUE, description |-> S(""),
     local |-> FALSE, token |-> None, policies |-> L(<<>>), roles |-> L(<<>>),
     service_identities |-> L(<<>>), node_identities |-> L(<<>>)]

\* one reconciler, r1, invoked repeatedly with one desired state
Init ==
    /\ consulVersion \in VersionStrings
    /\ \E rem \in InitialRemotes :
           dir = rem.dir /\ index = rem.index /\ listExtra = rem.listExtra
    /\ agentStatuses = UsualStatuses
    /\ \E p \in ParamsSet : params = [r \in Reconcilers |->
                                IF r = "r1" THEN p ELSE DefaultParams]
    /\ InitLocals

----------------------------------------------------------------------------
(* main() *)

\* main() with the Configuration built after the version was requested
Main_validates_late(r) ==
    /\ pc[r] \in {"idle", "done", "failed"}
    /\ runs[r] < MaxRuns
    /\ runs' = [runs EXCEPT ![r] = @ + 1]
    /\ prev' = [prev EXCEPT ![r] = [pc |-> pc[r], output |-> output[r],
                                    failure |-> failure[r]]]
    /\ calls' = [calls EXCEPT ![r] =
                   IF Configuration_raises(params[r])
                   THEN <<Request("GET", "/agent/self", None, None)>>
                   ELSE <<>>]
    /\ tokens' = [tokens EXCEPT ![r] = None]
    /\ index_token_object' = [index_token_object EXCEPT ![r] = None]
    /\ rest_token_object' = [rest_token_object EXCEPT ![r] = None]
    /\ token' = [token EXCEPT ![r] = None]
    /\ response' = [response EXCEPT ![r] = None]
    /\ output' = [output EXCEPT ![r] = None]
    /\ last_status' = [last_status EXCEPT ![r] = 0]
    /\ before_put' = [before_put EXCEPT ![r] = None]
    /\ IF Configuration_raises(params[r])
       THEN /\ pc' = [pc EXCEPT ![r] = "failed"]
            /\ failure' = [failure EXCEPT ![r] = "config"]
            /\ configuration' = [configuration EXCEPT ![r] = None]
       ELSE /\ pc' = [pc EXCEPT ![r] = "get_consul_version"]
            /\ failure' = [failure EXCEPT ![r] = "none"]
            /\ configuration' = [configuration EXCEPT
                                     ![r] = Configuration(params[r])]
    /\ UNCHANGED <<remoteVars, params, compared>>

\* main() going to set_token or remove_token with a version it assumes
Main_assumes_version(r) ==
    /\ pc[r] \in {"idle", "done", "failed"}
    /\ runs[r] < MaxRuns
    /\ runs' = [runs EXCEPT ![r] = @ + 1]
    /\ prev' = [prev EXCEPT ![r] = [pc |-> pc[r], output |-> output[r],
                                    failure |-> failure[r]]]
    /\ calls' = [calls EXCEPT ![r] = <<>>]
    /\ tokens' = [tokens EXCEPT ![r] = None]
    /\ index_token_object' = [index_token_object EXCEPT ![r] = None]
    /\ rest_token_object' = [rest_token_object EXCEPT ![r] = None]
    /\ token' = [token EXCEPT ![r] = None]
    /\ response' = [response EXCEPT ![r] = None]
    /\ output' = [output EXCEPT ![r] = None]
    /\ last_status' = [last_status EXCEPT ![r] = 0]
    /\ before_put' = [before_put EXCEPT ![r] = None]
    /\ IF Configuration_raises(params[r])
       THEN /\ pc' = [pc EXCEPT ![r] = "failed"]
            /\ failure' = [failure EXCEPT ![r] = "config"]
            /\ configuration' = [configuration EXCEPT ![r] = None]
       ELSE /\ pc' = [pc EXCEPT ![r] =
                       IF params[r].state = PRESENT_STATE_VALUE
                       THEN "set_token" ELSE "remove_token"]
            /\ failure' = [failure EXCEPT ![r] = "none"]
            /\ configuration' = [configuration EXCEPT ![r] =
                   [Configuration(params[r]) EXCEPT
                        !.version = ConsulVersion(V_1_8_0)]]
    /\ UNCHANGED <<remoteVars, params, compared>>

\* main(): the Configuration is built from module.params before any request;
\* a ValueError ends the invocation with fail_json('Configuration error')
Main(r) ==
    /\ pc[r] \in {"idle", "done", "failed"}
    /\ runs[r] < MaxRuns
    /\ runs' = [runs EXCEPT ![r] = @ + 1]
    /\ prev' = [prev EXCEPT ![r] = [pc |-> pc[r], output |-> output[r],
                                    failure |-> failure[r]]]
    /\ calls' = [calls EXCEPT ![r] = <<>>]
    /\ tokens' = [tokens EXCEPT ![r] = None]
    /\ index_token_object' = [index_token_object EXCEPT ![r] = None]
    /\ rest_token_object' = [rest_token_object EXCEPT ![r] = None]
    /\ token' = [token EXCEPT ![r] = None]
    /\ response' = [response EXCEPT ![r] = None]
    /\ output' = [output EXCEPT ![r] = None]
    /\ last_status' = [last_status EXCEPT ![r] = 0]
    /\ before_put' = [before_put EXCEPT ![r] = None]
    /\ IF Configuration_raises(params[r])
       THEN /\ pc' = [pc EXCEPT ![r] = "failed"]
            /\ failure' = [failure EXCEPT ![r] = "config"]
            /\ configuration' = [configuration EXCEPT ![r] = None]
       ELSE /\ pc' = [pc EXCEPT ![r] = "get_consul_version"]
            /\ failure' = [failure EXCEPT ![r] = "none"]
            /\ configuration' = [configuration EXCEPT
                                     ![r] = Configuration(params[r])]
    /\ UNCHANGED <<remoteVars, params, compared>>

\* get_consul_version taking a version of fewer than three components for
\* 1.8.0
GetConsulVersion_lenient(r) ==
    /\ pc[r] = "get_consul_version"
    /\ calls' = [calls EXCEPT
                     ![r] = Append(@, Request("GET", "/agent/self", None, None))]
    /\ \E result \in Results :
         LET err == call_error(result)
         IN  /\ failure' = [failure EXCEPT ![r] = err]
             /\ last_status' = [last_status EXCEPT ![r] = status_of(result)]
             /\ configuration' =
                    IF err = "none"
                    THEN [configuration EXCEPT
                              ![r].version =
                                  IF ConsulVersion_raises(consulVersion)
                                  THEN ConsulVersion(V_1_8_0)
                                  ELSE ConsulVersion(consulVersion)]
                    ELSE configuration
             /\ pc' = [pc EXCEPT ![r] =
                          IF err # "none" THEN "failed"
                          ELSE IF configuration[r].state = PRESENT_STATE_VALUE
                               THEN "set_token" ELSE "remove_token"]
    /\ UNCHANGED <<remoteVars, params, runs, prev, before_put, compared,
                   tokens, index_token_object,
                   rest_token_object, token, response, output>>

\* main(): version = get_consul_version(configuration), then the branch on
\* configuration.state
GetConsulVersion(r) ==
    /\ pc[r] = "get_consul_version"
    /\ calls' = [calls EXCEPT
                     ![r] = Append(@, Request("GET", "/agent/self", None, None))]
    /\ \E result \in Results :
         LET err == IF call_error(result) # "none" THEN call_error(result)
                    ELSE IF ConsulVersion_raises(consulVersion)
                         THEN "exception" ELSE "none"
         IN  /\ failure' = [failure EXCEPT ![r] = err]
             /\ last_status' = [last_status EXCEPT ![r] = status_of(result)]
             /\ configuration' =
                    IF err = "none"
                    THEN [configuration EXCEPT
                              ![r].version = ConsulVersion(consulVersion)]
                    ELSE configuration
             /\ pc' = [pc EXCEPT ![r] =
                          IF err # "none" THEN "failed"
                          ELSE IF configuration[r].state = PRESENT_STATE_VALUE
                               THEN "set_token" ELSE "remove_token"]
    /\ UNCHANGED <<remoteVars, params, runs, prev, before_put, compared,
                   tokens, index_token_object,
                   rest_token_object, token, response, output>>

\* set_token: tokens = get_tokens(configuration) and the branch on
\* configuration.id in tokens
SetTokenList(r) ==
    /\ pc[r] = "set_token"
    /\ calls' = [calls EXCEPT
                     ![r] = Append(@, Request("GET", "/acl/tokens", None, None))]
    /\ \E result \in Results :
         LET err == IF call_error(result) # "none" THEN call_error(result)
                    ELSE IF get_tokens_raises(remote_listing)
                         THEN "exception" ELSE "none"
             toks == get_tokens(remote_listing)
             id == configuration[r].id.str
         IN  /\ failure' = [failure EXCEPT ![r] = err]
             /\ last_status' = [last_status EXCEPT ![r] = status_of(result)]
             /\ response' = IF call_error(result) = "none"
                            THEN [response EXCEPT ![r] = remote_listing]
                            ELSE response
             /\ tokens' = IF err = "none"
                          THEN [tokens EXCEPT ![r] = toks] ELSE tokens
             /\ index_token_object' =
                    IF err = "none" /\ id \in DOMAIN toks
                    THEN [index_token_object EXCEPT ![r] = toks[id]]
                    ELSE index_token_object
             /\ pc' = [pc EXCEPT ![r] =
                          IF err # "none" THEN "failed"
                          ELSE IF id \in DOMAIN toks
                               THEN "get_token" ELSE "create_token"]
    /\ UNCHANGED <<remoteVars, params, runs, prev, before_put, compared,
                   configuration,
                   rest_token_object, token, output>>

\* set_token: rest_token_object = get_token(token_id, configuration) and the
\* merge of the two views
SetTokenFetch(r) ==
    /\ pc[r] = "get_token"
    /\ LET token_id == tokens[r][configuration[r].id.str]["AccessorID"]
       IN  /\ calls' = [calls EXCEPT ![r] =
                   Append(@, Request("GET", "/acl/token/%s", token_id, None))]
           /\ \E result \in Results :
                LET err == call_error(result)
                IN  /\ token_id \notin DOMAIN dir => err # "none"
                    /\ last_status' = [last_status EXCEPT
                                          ![r] = status_of(result)]
                    /\ failure' = [failure EXCEPT ![r] = err]
                    /\ response' = IF err = "none"
                                   THEN [response EXCEPT ![r] = dir[token_id]]
                                   ELSE response
                    /\ rest_token_object' =
                           IF err = "none"
                           THEN [rest_token_object EXCEPT ![r] = dir[token_id]]
                           ELSE rest_token_object
                    /\ token' =
                           IF err = "none"
                           THEN [token EXCEPT ![r] =
                                    merge_token(index_token_object[r],
                                                dir[token_id])]
                           ELSE token
                    /\ pc' = [pc EXCEPT ![r] =
                                 IF err # "none" THEN "failed"
                                 ELSE "update_token"]
    /\ UNCHANGED <<remoteVars, params, runs, prev, before_put, compared,
                   configuration, tokens,
                   index_token_object, output>>

\* update_token addressing the first other token of the listing
UpdateToken_other(r) ==
    /\ pc[r] = "update_token"
    /\ LET id == S(CHOOSE k \in DOMAIN tokens[r] :
                          k # token[r]["AccessorID"].str)
           update_data == update_token_data(configuration[r])
       IN  /\ calls' = [calls EXCEPT ![r] =
                   Append(@, Request("PUT", "/acl/token/%s", id, update_data))]
           /\ \E result \in Results :
                LET err == call_error(result)
                    resulting_token == remote_updated(dir[id], update_data)
                    raises == update_token_changed_raises(token[r],
                                                          resulting_token)
                IN  /\ id \notin DOMAIN dir => err # "none"
                    /\ before_put' = [before_put EXCEPT ![r] =
                           IF id \in DOMAIN dir THEN dir[id] ELSE None]
                    /\ last_status' = [last_status EXCEPT
                                          ![r] = status_of(result)]
                    /\ dir' = IF err = "none"
                              THEN remote_put(dir, id, resulting_token)
                              ELSE dir
                    /\ index' = IF err = "none"
                                THEN remote_put(index, id,
                                                remote_stub(resulting_token))
                                ELSE index
                    /\ response' = IF err = "none"
                                   THEN [response EXCEPT ![r] = resulting_token]
                                   ELSE response
                    /\ failure' = [failure EXCEPT ![r] =
                                      IF err # "none" THEN err
                                      ELSE IF raises THEN "exception"
                                           ELSE "none"]
                    /\ output' =
                           IF err = "none" /\ ~raises
                           THEN [output EXCEPT ![r] =
                                    Output(update_token_changed(token[r],
                                                            resulting_token),
                                           UPDATE_OPERATION, resulting_token)]
                           ELSE output
                    /\ pc' = [pc EXCEPT ![r] =
                                 IF err = "none" /\ ~raises
                                 THEN "done" ELSE "failed"]
    /\ UNCHANGED <<consulVersion, listExtra, agentStatuses, extWrites, compared,
                   params, runs, prev, configuration,
                   tokens, index_token_object, rest_token_object, token>>

\* update_token
UpdateToken(r) ==
    /\ pc[r] = "update_token"
    /\ LET id == token[r]["AccessorID"]
           update_data == update_token_data(configuration[r])
       IN  /\ calls' = [calls EXCEPT ![r] =
                   Append(@, Request("PUT", "/acl/token/%s", id, update_data))]
           /\ \E result \in Results :
                LET err == call_error(result)
                    resulting_token == remote_updated(dir[id], update_data)
                    raises == update_token_changed_raises(token[r],
                                                          resulting_token)
                IN  /\ id \notin DOMAIN dir => err # "none"
                    /\ before_put' = [before_put EXCEPT ![r] =
                           IF id \in DOMAIN dir THEN dir[id] ELSE None]
                    /\ last_status' = [last_status EXCEPT
                                          ![r] = status_of(result)]
                    /\ dir' = IF err = "none"
                              THEN remote_put(dir, id, resulting_token)
                              ELSE dir
                    /\ index' = IF err = "none"
                                THEN remote_put(index, id,
                                                remote_stub(resulting_token))
                                ELSE index
                    /\ response' = IF err = "none"
                                   THEN [response EXCEPT ![r] = resulting_token]
                                   ELSE response
                    /\ failure' = [failure EXCEPT ![r] =
                                      IF err # "none" THEN err
                                      ELSE IF raises THEN "exception"
                                           ELSE "none"]
                    /\ output' =
                           IF err = "none" /\ ~raises
                           THEN [output EXCEPT ![r] =
                                    Output(update_token_changed(token[r],
                                                            resulting_token),
                                           UPDATE_OPERATION, resulting_token)]
                           ELSE output
                    /\ pc' = [pc EXCEPT ![r] =
                                 IF err = "none" /\ ~raises
                                 THEN "done" ELSE "failed"]
    /\ UNCHANGED <<consulVersion, listExtra, agentStatuses, extWrites, compared,
                   params, runs, prev, configuration,
                   tokens, index_token_object, rest_token_object, token>>

\* create_token
CreateToken(r) ==
    /\ pc[r] = "create_token"
    /\ LET create_data == create_token_data(configuration[r])
           id == create_data["AccessorID"]
       IN  /\ calls' = [calls EXCEPT ![r] =
                   Append(@, Request("PUT", "/acl/token", None, create_data))]
           /\ \E result \in Results :
                LET err == call_error(result)
                    resulting_token == remote_created(create_data)
                IN  /\ id \in DOMAIN dir => err # "none"
                    /\ before_put' = [before_put EXCEPT ![r] =
                           IF id \in DOMAIN dir THEN dir[id] ELSE None]
                    /\ last_status' = [last_status EXCEPT
                                          ![r] = status_of(result)]
                    /\ dir' = IF err = "none"
                              THEN remote_put(dir, id, resulting_token)
                              ELSE dir
                    /\ index' = IF err = "none"
                                THEN remote_put(index, id,
                                                remote_stub(resulting_token))
                                ELSE index
                    /\ response' = IF err = "none"
                                   THEN [response EXCEPT ![r] = resulting_token]
                                   ELSE response
                    /\ failure' = [failure EXCEPT ![r] = err]
                    /\ output' =
                           IF err = "none"
                           THEN [output EXCEPT ![r] =
                                    Output(TRUE, CREATE_OPERATION,
                                           resulting_token)]
                           ELSE output
                    /\ pc' = [pc EXCEPT ![r] =
                                 IF err = "none" THEN "done" ELSE "failed"]
    /\ UNCHANGED <<consulVersion, listExtra, agentStatuses, extWrites, compared,
                   params, runs, prev, configuration,
                   tokens, index_token_object, rest_token_object, token>>

\* remove_token: tokens = get_tokens(configuration) and the branch on
\* configuration.id in tokens
RemoveTokenList(r) ==
    /\ pc[r] = "remove_token"
    /\ calls' = [calls EXCEPT
                     ![r] = Append(@, Request("GET", "/acl/tokens", None, None))]
    /\ \E result \in Results :
         LET err == IF call_error(result) # "none" THEN call_error(result)
                    ELSE IF get_tokens_raises(remote_listing)
                         THEN "exception" ELSE "none"
             toks == get_tokens(remote_listing)
             id == configuration[r].id.str
         IN  /\ failure' = [failure EXCEPT ![r] = err]
             /\ last_status' = [last_status EXCEPT ![r] = status_of(result)]
             /\ response' = IF call_error(result) = "none"
                            THEN [response EXCEPT ![r] = remote_listing]
                            ELSE response
             /\ tokens' = IF err = "none"
                          THEN [tokens EXCEPT ![r] = toks] ELSE tokens
             /\ output' = IF err = "none" /\ id \notin DOMAIN toks
                          THEN [output EXCEPT ![r] =
                                   Output(remove_token_changed(
                                              configuration[r], toks),
                                          REMOVE_OPERATION, None)]
                          ELSE output
             /\ pc' = [pc EXCEPT ![r] =
                          IF err # "none" THEN "failed"
                          ELSE IF id \in DOMAIN toks
                               THEN "delete_token" ELSE "done"]
    /\ UNCHANGED <<remoteVars, params, runs, prev, before_put, compared,
                   configuration,
                   index_token_object, rest_token_object, token>>

\* remove_token with the DELETE issued again after an error response
RemoveTokenDelete_retry(r) ==
    /\ pc[r] = "delete_token"
    /\ LET token_id == remove_token_id(configuration[r], tokens[r])
       IN  /\ calls' = [calls EXCEPT ![r] =
                   Append(@, Request("DELETE", "/acl/token/%s", token_id, None))]
           /\ \E result \in Results :
                LET err == call_error(result)
                IN  /\ token_id \notin DOMAIN dir => err # "none"
                    /\ before_put' = [before_put EXCEPT ![r] =
                           IF token_id \in DOMAIN dir
                           THEN dir[token_id] ELSE None]
                    /\ last_status' = [last_status EXCEPT
                                          ![r] = status_of(result)]
                    /\ dir' = IF err = "none"
                              THEN remote_del(dir, token_id) ELSE dir
                    /\ index' = IF err = "none"
                                THEN remote_del(index, token_id) ELSE index
                    /\ failure' = [failure EXCEPT ![r] = err]
                    /\ output' =
                           IF err = "none"
                           THEN [output EXCEPT ![r] =
                                    Output(remove_token_changed(
                                               configuration[r], tokens[r]),
                                           REMOVE_OPERATION, None)]
                           ELSE output
                    /\ pc' = [pc EXCEPT ![r] =
                                 IF err = "none" THEN "done"
                                 ELSE IF err = "request" THEN "delete_token"
                                      ELSE "failed"]
    /\ UNCHANGED <<consulVersion, listExtra, agentStatuses, extWrites, compared,
                   params, runs, prev, configuration,
                   tokens, index_token_object, rest_token_object, token,
                   response>>

\* remove_token: the DELETE of the branch configuration.id in tokens
RemoveTokenDelete(r) ==
    /\ pc[r] = "delete_token"
    /\ LET token_id == remove_token_id(configuration[r], tokens[r])
       IN  /\ calls' = [calls EXCEPT ![r] =
                   Append(@, Request("DELETE", "/acl/token/%s", token_id, None))]
           /\ \E result \in Results :
                LET err == call_error(result)
                IN  /\ token_id \notin DOMAIN dir => err # "none"
                    /\ before_put' = [before_put EXCEPT ![r] =
                           IF token_id \in DOMAIN dir
                           THEN dir[token_id] ELSE None]
                    /\ last_status' = [last_status EXCEPT
                                          ![r] = status_of(result)]
                    /\ dir' = IF err = "none"
                              THEN remote_del(dir, token_id) ELSE dir
                    /\ index' = IF err = "none"
                                THEN remote_del(index, token_id) ELSE index
                    /\ failure' = [failure EXCEPT ![r] = err]
                    /\ output' =
                           IF err = "none"
                           THEN [output EXCEPT ![r] =
                                    Output(remove_token_changed(
                                               configuration[r], tokens[r]),
                                           REMOVE_OPERATION, None)]
                           ELSE output
                    /\ pc' = [pc EXCEPT ![r] =
                                 IF err = "none" THEN "done" ELSE "failed"]
    /\ UNCHANGED <<consulVersion, listExtra, agentStatuses, extWrites, compared,
                   params, runs, prev, configuration,
                   tokens, index_token_object, rest_token_object, token,
                   response>>

Step(r) ==
    \/ Main(r)
    \/ GetConsulVersion(r)
    \/ SetTokenList(r)
    \/ SetTokenFetch(r)
    \/ UpdateToken(r)
    \/ CreateToken(r)
    \/ RemoveTokenList(r)
    \/ RemoveTokenDelete(r)

Next == Step("r1")

Spec == Init /\ [][Next]_vars

\* the desired states of the invocations whose responses carry any status
StatusParams ==
    {DefaultParams,
     [DefaultParams EXCEPT !.description = S("d1")],
     [DefaultParams EXCEPT !.state = ABSENT_STATE_VALUE]}

\* one reconciler, and an agent answering with any of the statuses around
\* the error range
InitStatus ==
    /\ consulVersion = V_1_8_0
    /\ \E rem \in {with_extra(RemoteWithout, <<>>),
                    with_extra(RemoteWithBare, <<>>)} :
           dir = rem.dir /\ index = rem.index /\ listExtra = rem.listExtra
    /\ agentStatuses = Statuses
    /\ \E p \in StatusParams : params = [r \in Reconcilers |->
                                    IF r = "r1" THEN p ELSE DefaultParams]
    /\ InitLocals

SpecStatus == InitStatus /\ [][Next]_vars

\* three-component version strings, with one- and two-digit components
VersionMajors == {<<"0">>, <<"1">>, <<"2">>}

VersionMinors == {<<"0">>, <<"4">>, <<"9">>, <<"1", "0">>}

VersionPatches == {<<"0">>, <<"9">>, <<"1", "0">>}

ComparedVersions ==
    {ma \o <<".">> \o mi \o <<".">> \o pa :
         ma \in VersionMajors, mi \in VersionMinors, pa \in VersionPatches}

InitVersion ==
    /\ consulVersion = V_1_8_0
    /\ dir = RemoteWithout.dir
    /\ index = RemoteWithout.index
    /\ listExtra = <<>>
    /\ agentStatuses = UsualStatuses
    /\ params = [r \in Reconcilers |-> DefaultParams]
    /\ InitLocals

\* one evaluation of ConsulVersion(a) >= ConsulVersion(b) and of
\* ConsulVersion(a) <= ConsulVersion(b)
Compare ==
    /\ compared = None
    /\ \E a \in ComparedVersions, b \in ComparedVersions :
           compared' = [a |-> a, b |-> b,
                        ge |-> ConsulVersion_ge(ConsulVersion(a),
                                                ConsulVersion(b)),
                        le |-> ConsulVersion_le(ConsulVersion(a),
                                                ConsulVersion(b))]
    /\ UNCHANGED <<remoteVars, params, pc, runs, configuration, tokens,
                   index_token_object, rest_token_object, token, response,
                   output, failure, calls, last_status, before_put, prev>>

NextVersion == Compare

SpecVersion == InitVersion /\ [][NextVersion]_vars

MaxExternalWrites == 1

\* the desired states of two reconcilers managing the same id
RaceParams ==
    [r1 : {[DefaultParams EXCEPT !.description = S("d1")],
           [DefaultParams EXCEPT !.state = ABSENT_STATE_VALUE]},
     r2 : {[DefaultParams EXCEPT !.description = S("d1")],
           [DefaultParams EXCEPT !.description = S("d2")]}]

\* the descriptions another client of the API writes
ExternalDescriptions == {S("d2")}

InitRace ==
    /\ consulVersion = V_1_8_0
    /\ dir = RemoteWithBare.dir
    /\ index = RemoteWithBare.index
    /\ listExtra = <<>>
    /\ agentStatuses = {200}
    /\ params \in RaceParams
    /\ InitLocals

\* another client of the API updates the managed token: nothing in the
\* module's requests is conditional on the token's ModifyIndex
ExternalWrite ==
    /\ extWrites < MaxExternalWrites
    /\ ManagedId \in DOMAIN dir
    /\ extWrites' = extWrites + 1
    /\ \E desc \in ExternalDescriptions :
         LET doc == remote_updated(dir[ManagedId],
                        [Description |-> desc,
                         Local |-> dir[ManagedId]["Local"]])
         IN  /\ dir' = remote_put(dir, ManagedId, doc)
             /\ index' = remote_put(index, ManagedId, remote_stub(doc))
    /\ UNCHANGED <<consulVersion, listExtra, agentStatuses, params, localVars,
                   pc, runs, prev, last_status, before_put, compared>>

\* two invocations of the module on the same id, their requests interleaved,
\* and another writer
NextRace == Step("r1") \/ Step("r2") \/ ExternalWrite

SpecRace == InitRace /\ [][NextRace]_vars

----------------------------------------------------------------------------
(* Properties *)

PutCalls(r) == {i \in DOMAIN calls[r] : calls[r][i].method = "PUT"}

DeleteCalls(r) == {i \in DOMAIN calls[r] : calls[r][i].method = "DELETE"}

MutatingCalls(r) == PutCalls(r) \cup DeleteCalls(r)

\* get_tokens has returned in the current invocation of r
Listed(r) == pc[r] # "idle" /\ tokens[r] # None

\* C1: when a reconciler's Present invocation succeeds right after a
\* successful invocation with the same desired state, and nobody else wrote
\* in between, it reports changed = false, and neither invocation failed.
PresentIdempotent ==
    \A r \in Reconcilers :
        (/\ params[r].state = PRESENT_STATE_VALUE
         /\ pc[r] = "done"
         /\ prev[r].pc = "done")
        => /\ output[r].changed = FALSE
           /\ failure[r] = "none"
           /\ prev[r].failure = "none"

\* a second run that reports no change after a first run that updated the
\* token and reported a change
PresentIdempotentWitness ==
    /\ params["r1"].state = PRESENT_STATE_VALUE
    /\ pc["r1"] = "done"
    /\ prev["r1"].pc = "done"
    /\ prev["r1"].output.changed = TRUE
    /\ prev["r1"].output.operation = UPDATE_OPERATION
    /\ output["r1"].changed = FALSE
    /\ output["r1"].operation = UPDATE_OPERATION

\* C2: every create or update body sent to an agent reporting 1.4.9 has
\* neither ServiceIdentities nor NodeIdentities, to one reporting 1.5.0 has
\* ServiceIdentities and no NodeIdentities, to one reporting 1.8.0 has both.
VersionGatingAtThresholds ==
    \A r \in Reconcilers : \A i \in PutCalls(r) :
        LET keys == DOMAIN calls[r][i].body
        IN  /\ consulVersion = <<"1", ".", "4", ".", "9">>
                => "ServiceIdentities" \notin keys /\ "NodeIdentities" \notin keys
            /\ consulVersion = <<"1", ".", "5", ".", "0">>
                => "ServiceIdentities" \in keys /\ "NodeIdentities" \notin keys
            /\ consulVersion = <<"1", ".", "8", ".", "0">>
                => "ServiceIdentities" \in keys /\ "NodeIdentities" \in keys

\* an update sent to a 1.4.9 agent although the desired state lists a
\* service identity and a node identity
VersionGatingAtThresholdsWitness ==
    /\ consulVersion = <<"1", ".", "4", ".", "9">>
    /\ params["r1"].service_identities.list # <<>>
    /\ params["r1"].node_identities.list # <<>>
    /\ \E i \in PutCalls("r1") : calls["r1"][i].path = "/acl/token/%s"

\* the components of the reported version as numbers, and the release order
ReleaseTriple(version_string) ==
    LET parts == split(version_string, ".")
    IN  <<int(parts[1]), int(parts[2]), int(parts[3])>>

ReleaseOlder(a, b) ==
    \/ a[1] < b[1]
    \/ a[1] = b[1] /\ a[2] < b[2]
    \/ a[1] = b[1] /\ a[2] = b[2] /\ a[3] < b[3]

\* C3: no create or update body sent to an agent older than 1.5.0 in
\* release order has the ServiceIdentities key, and none sent to an agent
\* older than 1.8.0 has the NodeIdentities key.
OmittedBelowThresholds ==
    \A r \in Reconcilers : \A i \in PutCalls(r) :
        LET keys == DOMAIN calls[r][i].body
            v == ReleaseTriple(consulVersion)
        IN  /\ ReleaseOlder(v, <<1, 5, 0>>) => "ServiceIdentities" \notin keys
            /\ ReleaseOlder(v, <<1, 8, 0>>) => "NodeIdentities" \notin keys

\* C4: when remove_token has listed the tokens and the id is not a key of
\* the mapping, the invocation ends with changed = false, operation remove,
\* and has issued no DELETE.
AbsentOnMissing ==
    \A r \in Reconcilers :
        (/\ params[r].state = ABSENT_STATE_VALUE
         /\ Listed(r)
         /\ params[r].id.str \notin DOMAIN tokens[r])
        => /\ pc[r] = "done"
           /\ output[r] = [changed |-> FALSE, operation |-> "remove",
                           token |-> None]
           /\ DeleteCalls(r) = {}

\* the id is missing from a listing that has other entries
AbsentOnMissingWitness ==
    /\ params["r1"].state = ABSENT_STATE_VALUE
    /\ Listed("r1")
    /\ "ID-1" \notin DOMAIN tokens["r1"]
    /\ DOMAIN tokens["r1"] # {}
    /\ output["r1"].changed = FALSE

\* C5: when remove_token has listed the tokens and the id is a key of the
\* mapping, then once the invocation has ended exactly one DELETE was
\* issued, to the accessor id of that entry; if it ended well the outcome is
\* changed = true, operation remove, and the token is gone from the remote.
AbsentOnExisting ==
    \A r \in Reconcilers :
        (/\ params[r].state = ABSENT_STATE_VALUE
         /\ Listed(r)
         /\ params[r].id.str \in DOMAIN tokens[r]
         /\ pc[r] \in {"done", "failed"})
        => /\ Cardinality(DeleteCalls(r)) = 1
           /\ \A i \in DeleteCalls(r) :
                 /\ calls[r][i].path = "/acl/token/%s"
                 /\ calls[r][i].arg = tokens[r][params[r].id.str]["AccessorID"]
           /\ pc[r] = "done"
                 => /\ output[r] = [changed |-> TRUE, operation |-> "remove",
                                    token |-> None]
                    /\ params[r].id \notin DOMAIN dir
                    /\ params[r].id \notin DOMAIN index

\* a token that was listed has been deleted, the other one is still there
AbsentOnExistingWitness ==
    /\ params["r1"].state = ABSENT_STATE_VALUE
    /\ pc["r1"] = "done"
    /\ Listed("r1")
    /\ "ID-1" \in DOMAIN tokens["r1"]
    /\ Cardinality(DeleteCalls("r1")) = 1
    /\ ManagedId \notin DOMAIN dir
    /\ OtherId \in DOMAIN dir

\* the wire form of a policy or role link: {ID, Name}, a missing one null
WireLink(d) ==
    [ID |-> IF "id" \in DOMAIN d THEN d["id"] ELSE None,
     Name |-> IF "name" \in DOMAIN d THEN d["name"] ELSE None]

WireLinks(links) == L([i \in DOMAIN links.list |-> WireLink(links.list[i])])

\* C6: when set_token has listed the tokens and the id is not a key of the
\* mapping, then once the invocation has ended exactly one PUT was issued,
\* to /acl/token, with AccessorID the id, SecretID the configured token
\* (None when not given) and Policies and Roles the desired links as
\* {ID, Name}; if it ended well the outcome is changed = true, operation
\* create, token the response body.
CreatePath ==
    \A r \in Reconcilers :
        (/\ params[r].state = PRESENT_STATE_VALUE
         /\ Listed(r)
         /\ params[r].id.str \notin DOMAIN tokens[r]
         /\ pc[r] \in {"done", "failed"})
        => /\ Cardinality(PutCalls(r)) = 1
           /\ \A i \in PutCalls(r) :
                 /\ calls[r][i].path = "/acl/token"
                 /\ calls[r][i].arg = None
                 /\ calls[r][i].body["AccessorID"] = params[r].id
                 /\ calls[r][i].body["SecretID"] = params[r].token
                 /\ calls[r][i].body["Policies"] = WireLinks(params[r].policies)
                 /\ calls[r][i].body["Roles"] = WireLinks(params[r].roles)
           /\ pc[r] = "done"
                 => output[r] = [changed |-> TRUE, operation |-> "create",
                                 token |-> response[r]]

\* the spec's example: policies [{name: p1}], no secret given, created
CreatePathWitness ==
    /\ pc["r1"] = "done"
    /\ output["r1"].operation = CREATE_OPERATION
    /\ params["r1"].policies = L(<<[name |-> S("p1")]>>)
    /\ params["r1"].token = None
    /\ \E i \in PutCalls("r1") :
          /\ calls["r1"][i].body["AccessorID"] = S("ID-1")
          /\ calls["r1"][i].body["SecretID"] = None
          /\ calls["r1"][i].body["Policies"] =
                 L(<<[ID |-> None, Name |-> S("p1")]>>)
    /\ ManagedId \in DOMAIN dir

\* the six compared fields, a missing key read as null
ComparedFields ==
    {"Description", "Local", "Policies", "Roles", "ServiceIdentities",
     "NodeIdentities"}

FieldOrNull(d, k) == IF k \in DOMAIN d THEN d[k] ELSE None

Differs(a, b) == \E k \in ComparedFields : FieldOrNull(a, k) # FieldOrNull(b, k)

\* set_token has fetched the full token in the current invocation of r
Fetched(r) == pc[r] # "idle" /\ rest_token_object[r] # None

\* C7: on the Update path the baseline has every field of the full fetch with
\* the full fetch's value and every other field of the index entry with the
\* index entry's value, and changed is the comparison of that baseline with
\* the response.
MergeBeforeUpdate ==
    \A r \in Reconcilers :
        Fetched(r) =>
            LET entry == index_token_object[r]
                full == rest_token_object[r]
                baseline == [k \in DOMAIN entry \cup DOMAIN full |->
                                IF k \in DOMAIN full THEN full[k] ELSE entry[k]]
            IN  /\ DOMAIN token[r] = DOMAIN entry \cup DOMAIN full
                /\ \A k \in DOMAIN full : token[r][k] = full[k]
                /\ \A k \in DOMAIN entry \ DOMAIN full : token[r][k] = entry[k]
                /\ pc[r] = "done"
                      => output[r].changed = Differs(baseline, response[r])

\* an update whose index entry has no Description, another Policies value
\* than the full fetch, and a Roles value the full fetch lacks; the result
\* equals the full fetch in every compared field but Roles
MergeBeforeUpdateWitness ==
    /\ pc["r1"] = "done"
    /\ Fetched("r1")
    /\ "Description" \notin DOMAIN index_token_object["r1"]
    /\ "Description" \in DOMAIN rest_token_object["r1"]
    /\ index_token_object["r1"]["Policies"] # rest_token_object["r1"]["Policies"]
    /\ "Roles" \in DOMAIN index_token_object["r1"] \ DOMAIN rest_token_object["r1"]
    /\ output["r1"].changed = TRUE
    /\ \A k \in ComparedFields \ {"Roles"} :
          FieldOrNull(rest_token_object["r1"], k) = FieldOrNull(response["r1"], k)

\* an element of the desired service or node identities that is not a
\* mapping or has no name
InvalidIdentity(p) ==
    \E q \in {p.service_identities.list, p.node_identities.list} :
        \E i \in DOMAIN q : ~isinstance_dict(q[i]) \/ "name" \notin DOMAIN q[i]

\* C8: an invocation whose desired service or node identities have an
\* element that is not a mapping or has no name fails with a configuration
\* error, issues no HTTP call and returns no outcome, and no step of it
\* changes the remote directory.
ValidationBeforeNetwork ==
    /\ [](\A r \in Reconcilers :
             (runs[r] > 0 /\ InvalidIdentity(params[r]))
             => /\ pc[r] = "failed"
                /\ failure[r] = "config"
                /\ calls[r] = <<>>
                /\ output[r] = None)
    /\ [][(\A r \in Reconcilers : runs'[r] > 0 => InvalidIdentity(params[r]))
             => UNCHANGED <<dir, index>>]_vars

\* the spec's example: a service identity {datacenters: [dc1]}
ValidationBeforeNetworkWitness ==
    /\ params["r1"].service_identities =
           L(<<[datacenters |-> L(<<S("dc1")>>)]>>)
    /\ runs["r1"] > 0
    /\ pc["r1"] = "failed"
    /\ failure["r1"] = "config"
    /\ calls["r1"] = <<>>

\* a policy or role link with neither id nor name
EmptyLink(p) ==
    \E q \in {p.policies.list, p.roles.list} :
        \E i \in DOMAIN q : "id" \notin DOMAIN q[i] /\ "name" \notin DOMAIN q[i]

\* C9: an invocation whose desired policy or role links have an element
\* with neither id nor name fails with a validation error, and sends no
\* create or update request carrying a link {ID: null, Name: null}.
LinksRequireIdentifier ==
    \A r \in Reconcilers :
        (runs[r] > 0 /\ EmptyLink(params[r]))
        => /\ pc[r] = "failed"
           /\ failure[r] = "config"
           /\ \A i \in PutCalls(r) :
                 \A f \in {"Policies", "Roles"} :
                     \A j \in DOMAIN calls[r][i].body[f].list :
                         calls[r][i].body[f].list[j]
                             # [ID |-> None, Name |-> None]

\* C10: an invocation issues at most one mutating request (PUT /acl/token,
\* PUT /acl/token/<id>, DELETE /acl/token/<id>).
AtMostOneMutatingCall ==
    \A r \in Reconcilers : Cardinality(MutatingCalls(r)) <= 1

\* an invocation that ended on the error response to its mutating request
AtMostOneMutatingCallWitness ==
    /\ pc["r1"] = "failed"
    /\ failure["r1"] = "request"
    /\ Cardinality(MutatingCalls("r1")) = 1
    /\ calls["r1"][Len(calls["r1"])].method \in {"PUT", "DELETE"}

IsCall(c, method, path) == c.method = method /\ c.path = path

\* C11: the requests of an invocation are, in this order, GET /agent/self,
\* GET /acl/tokens, then on the Update path GET /acl/token/<id>, then the one
\* mutating request; the version is requested once and first, a fetch is
\* made only for an id found in the listing, a mutating request only after
\* the listing has returned, and there are at most four requests.
CallOrdering ==
    \A r \in Reconcilers :
        LET q == calls[r]
            n == Len(calls[r])
        IN  /\ n <= 4
            /\ n >= 1 => IsCall(q[1], "GET", "/agent/self")
            /\ \A i \in 2..n : q[i].path # "/agent/self"
            /\ n >= 2 => IsCall(q[2], "GET", "/acl/tokens")
            /\ n >= 3 =>
                 \/ /\ IsCall(q[3], "GET", "/acl/token/%s")
                    /\ params[r].state = PRESENT_STATE_VALUE
                    /\ params[r].id.str \in DOMAIN tokens[r]
                 \/ /\ q[3].method \in {"PUT", "DELETE"}
                    /\ n = 3
            /\ n = 4 => /\ IsCall(q[3], "GET", "/acl/token/%s")
                        /\ IsCall(q[4], "PUT", "/acl/token/%s")
            /\ MutatingCalls(r) # {} => Listed(r)

\* an update that went through its four requests
CallOrderingWitness ==
    /\ pc["r1"] = "done"
    /\ Len(calls["r1"]) = 4
    /\ output["r1"].operation = UPDATE_OPERATION
    /\ IsCall(calls["r1"][1], "GET", "/agent/self")
    /\ IsCall(calls["r1"][4], "PUT", "/acl/token/%s")

\* the invocation of r ended on the failure path, without a result
Aborted(r) == pc[r] = "failed" /\ output[r] = None

\* C12: a response whose status is in [400, 600) ends the invocation on the
\* failure path as a request error, a connection error ends it as a
\* connection failure, statuses 200, 399 and 600 do not end it as a request
\* error; once an invocation has failed it makes no further request (nothing
\* is retried) until the module is invoked again.
FailuresAreTerminal ==
    /\ [](\A r \in Reconcilers :
            /\ (400 <= last_status[r] /\ last_status[r] < 600)
                 => Aborted(r) /\ failure[r] = "request"
            /\ last_status[r] \in {200, 399, 600} => failure[r] # "request"
            /\ failure[r] = "request"
                 => 400 <= last_status[r] /\ last_status[r] < 600
            /\ failure[r] = "connect" => Aborted(r) /\ last_status[r] = 0
            /\ pc[r] = "failed" => Aborted(r) /\ failure[r] # "none")
    /\ [][\A r \in Reconcilers :
            pc[r] = "failed" =>
                \/ calls'[r] = calls[r] /\ pc'[r] = "failed"
                \/ runs'[r] = runs[r] + 1 /\ calls'[r] = <<>>]_vars

\* a mutating request answered with 599 ended the invocation
FailuresAreTerminalWitness ==
    /\ pc["r1"] = "failed"
    /\ failure["r1"] = "request"
    /\ last_status["r1"] = 599
    /\ MutatingCalls("r1") # {}
    /\ output["r1"] = None

\* a listing entry that carries a non-null accessor identity
HasAccessorID(e) == "AccessorID" \in DOMAIN e /\ e["AccessorID"] # None

\* C13: once the listing has been answered, get_tokens has returned the
\* mapping of exactly the entries with a non-null accessor identity, keyed by
\* it, and no entry (one with a null AccessorID, one with no AccessorID
\* field) has made the invocation fail.
DefensiveSkip ==
    \A r \in Reconcilers :
        (Len(calls[r]) = 2 /\ last_status[r] = 200) =>
            LET q == remote_listing.list
                kept == {i \in DOMAIN q : HasAccessorID(q[i])}
            IN  /\ failure[r] = "none"
                /\ pc[r] # "failed"
                /\ DOMAIN tokens[r] = {q[i]["AccessorID"].str : i \in kept}
                /\ \A k \in DOMAIN tokens[r] :
                       \E i \in kept : q[i] = tokens[r][k]

RECURSIVE Pow10(_)
Pow10(n) == IF n = 0 THEN 1 ELSE 10 * Pow10(n - 1)

\* the number whose decimal digits are those of major, minor and patch
\* written one after another
Concatenated(version_string) ==
    LET parts == split(version_string, ".")
    IN  (int(parts[1]) * Pow10(Len(parts[2])) + int(parts[2]))
            * Pow10(Len(parts[3])) + int(parts[3])

V_1_10_0 == <<"1", ".", "1", "0", ".", "0">>
V_1_9_0 == <<"1", ".", "9", ".", "0">>
V_2_0_0 == <<"2", ".", "0", ".", "0">>

\* C14: a >= b (a <= b) is the comparison of the integers read from the
\* digits of major, minor and patch written one after another: 1.10.0 >=
\* 1.9.0 is 1100 >= 190, and 1.10.0 >= 2.0.0 is 1100 >= 200, which is not
\* the release order.
ComparisonByConcatenation ==
    compared # None =>
        /\ compared.ge = (Concatenated(compared.a) >= Concatenated(compared.b))
        /\ compared.le = (Concatenated(compared.a) <= Concatenated(compared.b))
        /\ (compared.a = V_1_10_0 /\ compared.b = V_1_9_0) =>
               /\ Concatenated(compared.a) = 1100
               /\ Concatenated(compared.b) = 190
               /\ compared.ge = TRUE
        /\ (compared.a = V_1_10_0 /\ compared.b = V_2_0_0) =>
               /\ Concatenated(compared.a) = 1100
               /\ Concatenated(compared.b) = 200
               /\ compared.ge = TRUE
               /\ ReleaseOlder(ReleaseTriple(compared.a),
                               ReleaseTriple(compared.b))

\* 1.10.0 compared with 2.0.0 came out as greater or equal
ComparisonByConcatenationWitness ==
    /\ compared # None
    /\ compared.a = V_1_10_0
    /\ compared.b = V_2_0_0
    /\ compared.ge = TRUE
    /\ compared.le = FALSE

\* C15: no update request body has an AccessorID or a SecretID, and after a
\* successful update the remote token's SecretID and AccessorID are the
\* ones it had before the PUT, whatever the configured secret is.
SecretOnCreationOnly ==
    \A r \in Reconcilers :
        /\ \A i \in PutCalls(r) :
               calls[r][i].path = "/acl/token/%s" =>
                   /\ "AccessorID" \notin DOMAIN calls[r][i].body
                   /\ "SecretID" \notin DOMAIN calls[r][i].body
        /\ (pc[r] = "done" /\ output[r].operation = UPDATE_OPERATION) =>
               /\ params[r].id \in DOMAIN dir
               /\ dir[params[r].id]["SecretID"] = before_put[r]["SecretID"]
               /\ dir[params[r].id]["AccessorID"] = before_put[r]["AccessorID"]
               /\ output[r].token["SecretID"] = before_put[r]["SecretID"]

\* an update configured with a secret other than the one the token has
SecretOnCreationOnlyWitness ==
    /\ pc["r1"] = "done"
    /\ output["r1"].operation = UPDATE_OPERATION
    /\ params["r1"].token = S("s1")
    /\ before_put["r1"] # None
    /\ before_put["r1"]["SecretID"] = S("s0")
    /\ dir[ManagedId]["SecretID"] = S("s0")
    /\ output["r1"].changed = TRUE

\* no other reconciler has been invoked and no other client has written
Alone(r) ==
    /\ extWrites = 0
    /\ \A o \in Reconcilers \ {r} : runs[o] = 0

\* the stored token has the desired description, scope, policies and roles
MatchesDesired(doc, p) ==
    /\ doc["Description"] = p.description
    /\ doc["Local"] = p.local
    /\ FieldOrNull(doc, "Policies") = WireLinks(p.policies)
    /\ FieldOrNull(doc, "Roles") = WireLinks(p.roles)

\* r reported a successful Present, and the remote token is not what r
\* desired
LostUpdate(r) ==
    /\ pc[r] = "done"
    /\ params[r].state = PRESENT_STATE_VALUE
    /\ \/ params[r].id \notin DOMAIN dir
       \/ ~MatchesDesired(dir[params[r].id], params[r])

\* r reported changed = true for an update whose PUT left the compared
\* attributes as they were just before it
SpuriousChanged(r) ==
    /\ pc[r] = "done"
    /\ output[r].operation = UPDATE_OPERATION
    /\ output[r].changed = TRUE
    /\ ~Differs(before_put[r], response[r])

\* C16: a reconciler that is alone (no other reconciler invoked, no other
\* writer) never ends with a lost update or a spurious changed; a spurious
\* changed only happens when the token was written between the
\* reconciler's fetch and its PUT. Both outcomes are reachable when two
\* reconcilers interleave or another client writes.
UnguardedRace ==
    \A r \in Reconcilers :
        /\ Alone(r) => ~LostUpdate(r) /\ ~SpuriousChanged(r)
        /\ SpuriousChanged(r) => rest_token_object[r] # before_put[r]

\* r1 updated the token and reported success, the token was then written
\* between r2's fetch and r2's PUT: r1's update is lost and r2 reports a
\* change its PUT did not make
UnguardedRaceWitness ==
    /\ pc["r1"] = "done"
    /\ output["r1"].operation = UPDATE_OPERATION
    /\ output["r1"].changed = TRUE
    /\ LostUpdate("r1")
    /\ SpuriousChanged("r2")
    /\ rest_token_object["r2"]["ModifyIndex"] < before_put["r2"]["ModifyIndex"]

\* C17: an update reports changed = true exactly when one of Description,
\* Local, Policies, Roles, ServiceIdentities, NodeIdentities differs between
\* the merged view and the PUT response, a missing key read as null; the
\* other fields and the desired state take no part.
UpdateChangeDetection ==
    \A r \in Reconcilers :
        (pc[r] = "done" /\ output[r].operation = UPDATE_OPERATION) =>
            /\ output[r].changed =
                   (\E k \in ComparedFields :
                        FieldOrNull(token[r], k) # FieldOrNull(response[r], k))
            /\ (\A k \in ComparedFields :
                    FieldOrNull(token[r], k) = FieldOrNull(response[r], k))
                   => output[r].changed = FALSE

\* an update that reports no change: the merged view has NodeIdentities
\* null and the response has no such key, their ModifyIndex differ, and the
\* desired service identities are in neither
UpdateChangeDetectionWitness ==
    /\ pc["r1"] = "done"
    /\ output["r1"].operation = UPDATE_OPERATION
    /\ output["r1"].changed = FALSE
    /\ "NodeIdentities" \in DOMAIN token["r1"]
    /\ token["r1"]["NodeIdentities"] = None
    /\ "NodeIdentities" \notin DOMAIN response["r1"]
    /\ token["r1"]["ModifyIndex"] # response["r1"]["ModifyIndex"]
    /\ params["r1"].service_identities # L(<<>>)
    /\ "ServiceIdentities" \notin DOMAIN response["r1"]

\* the agent reports a version with fewer than three components
Malformed(version_string) == Len(split(version_string, ".")) < 3

\* C18: when the agent reports a version string with fewer than three
\* dot-separated components, the invocation fails at the version request:
\* it issues no request other than GET /agent/self and has no outcome.
MalformedVersionAborts ==
    \A r \in Reconcilers :
        Malformed(consulVersion) =>
            /\ Len(calls[r]) <= 1
            /\ \A i \in DOMAIN calls[r] :
                   IsCall(calls[r][i], "GET", "/agent/self")
            /\ output[r] = None
            /\ pc[r] \in {"idle", "get_consul_version", "failed"}
            /\ Len(calls[r]) = 1 => pc[r] = "failed" /\ failure[r] # "none"
            /\ (Len(calls[r]) = 1 /\ last_status[r] = 200)
                   => failure[r] = "exception"

\* the version request was answered with 200 and a two-component version,
\* and the invocation has failed
MalformedVersionAbortsWitness ==
    /\ Malformed(consulVersion)
    /\ Len(calls["r1"]) = 1
    /\ last_status["r1"] = 200
    /\ pc["r1"] = "failed"
    /\ failure["r1"] = "exception"
    /\ output["r1"] = None

\* the wire form of the desired service and node identities
WireServiceIdentities(ids) ==
    L([i \in DOMAIN ids.list |->
          [ServiceName |-> ids.list[i]["name"],
           Datacenters |-> FieldOrNull(ids.list[i], "datacenters")]])

WireNodeIdentities(ids) ==
    L([i \in DOMAIN ids.list |->
          [NodeName |-> ids.list[i]["name"],
           Datacenter |-> FieldOrNull(ids.list[i], "datacenter")]])

\* the gate on a field, as the module evaluates it for the agent's version
GateOpen(threshold) == Concatenated(consulVersion) >= Concatenated(threshold)

\* C19: with one reconciler and no other writer, after every successful
\* Present invocation the directory has a token with the managed id whose
\* Description, Local, Policies and Roles are the desired ones, and whose
\* ServiceIdentities (NodeIdentities) are the desired ones when the 1.5.0
\* (1.8.0) gate is open; after every successful Absent invocation it has no
\* token with that id.
Convergence ==
    \A r \in Reconcilers :
        pc[r] = "done" =>
            IF params[r].state = PRESENT_STATE_VALUE
            THEN /\ params[r].id \in DOMAIN dir
                 /\ LET doc == dir[params[r].id]
                    IN  /\ doc["AccessorID"] = params[r].id
                        /\ MatchesDesired(doc, params[r])
                        /\ GateOpen(V_1_5_0) =>
                               FieldOrNull(doc, "ServiceIdentities") =
                                   WireServiceIdentities(
                                       params[r].service_identities)
                        /\ GateOpen(V_1_8_0) =>
                               FieldOrNull(doc, "NodeIdentities") =
                                   WireNodeIdentities(params[r].node_identities)
            ELSE params[r].id \notin DOMAIN dir

\* an update that replaced the description, the policies, the roles and
\* the service identities of a token that had other ones
ConvergenceWitness ==
    /\ pc["r1"] = "done"
    /\ output["r1"].operation = UPDATE_OPERATION
    /\ output["r1"].changed = TRUE
    /\ before_put["r1"]["Description"] = S("d1")
    /\ before_put["r1"]["Policies"] # L(<<>>)
    /\ params["r1"].description = S("")
    /\ params["r1"].policies = L(<<>>)
    /\ params["r1"].roles = L(<<[id |-> S("r1")]>>)
    /\ params["r1"].service_identities # L(<<>>)
    /\ GateOpen(V_1_5_0)
    /\ dir[ManagedId]["Description"] = S("")
    /\ dir[ManagedId]["Policies"] = L(<<>>)
    /\ dir[ManagedId]["Roles"] = L(<<[ID |-> S("r1"), Name |-> None]>>)
    /\ "ServiceIdentities" \in DOMAIN dir[ManagedId]

\* C20: every GET, PUT or DELETE on /acl/token/<id> is addressed to the
\* configured id and a creation carries it as AccessorID, so a token with
\* another accessor id is never changed and never deleted, whether the
\* invocation succeeds or fails.
OnlyManagedTokenTouched ==
    /\ [](\A r \in Reconcilers :
            \A i \in DOMAIN calls[r] :
                /\ calls[r][i].path = "/acl/token/%s"
                       => calls[r][i].arg = params[r].id
                /\ IsCall(calls[r][i], "PUT", "/acl/token")
                       => calls[r][i].body["AccessorID"] = params[r].id)
    /\ [][\A k \in DOMAIN dir :
             (\A r \in Reconcilers : k # params[r].id)
                 => /\ k \in DOMAIN dir'
                    /\ dir'[k] = dir[k]
                    /\ index'[k] = index[k]]_vars

\* after a fetch and an update of the managed token, and after a failed
\* invocation before it, the other token is as it was
OnlyManagedTokenTouchedWitness ==
    /\ pc["r1"] = "done"
    /\ prev["r1"].pc = "failed"
    /\ output["r1"].operation = UPDATE_OPERATION
    /\ output["r1"].changed = TRUE
    /\ Len(calls["r1"]) = 4
    /\ calls["r1"][3].arg = ManagedId
    /\ calls["r1"][4].arg = ManagedId
    /\ dir[ManagedId] # BareToken
    /\ dir[OtherId] = OtherToken

====
